---- MODULE Spec2Model ----
(***************************************************************************)
(* Model of gordo's dataset preprocessing core:                            *)
(*   - the preprocessor registry/factory of                                *)
(*     gordo/machine/dataset/preprocessor.py (preprocessor,                *)
(*     create_preprocessor, normalize_preprocessor),                       *)
(*   - FillGapsPreprocessor (reset, prepare_series, prepare_data),         *)
(*   - the multi-provider loader exercised by tests/test_data_providers.py *)
(*     together with the tests' MockProducerRegExp provider.               *)
(*                                                                         *)
(* Timestamps and durations are integers (one unit = one duration unit).   *)
(* A series is [name, index]: its tag and its strictly increasing index;   *)
(* the index is named "Time", the column prepare_series reads (line 77).   *)
(* A python dict is a sequence of entries in insertion order.              *)
(***************************************************************************)
EXTENDS Integers, Sequences, FiniteSets, TLC

\* ------------------------------------------------------------------ bounds
\* Timestamps of the samples of a scanned series.
Times == 0 .. 3
\* prepare_series is not called when the registry would exceed this many
\* intervals in total.
MaxGaps == 2
\* Largest number of tags in one request to the loader.
MaxTags == 3

\* Series (tag) names.
Tags == {"A", "B"}
\* Number of series in one prepare_series batch.
BatchSizes == {0, 1, 2}
\* Thresholds and replacement values an instance is configured with.
GapSizes == {1, 2}
ReplaceValues == {0}
\* Row timestamps of a merged table: gap intervals end after the last sample.
RowTimes == 0 .. 6

VARIABLES
    gap_size,       \* self.gap_size
    replace_value,  \* self.replace_value
    _gaps,          \* self._gaps: <<[name, gaps]>> in insertion order
    op,             \* the call the caller is looking at, "none" between calls
    error,          \* the exception it raised, or "none"
    series,         \* the batch passed to the last prepare_series
    result,         \* the batch returned by the last prepare_series
    log,            \* the records the last prepare_series logged
    gaps_before,    \* self._gaps when the last operation was called
    df,             \* the table passed to the last prepare_data (mutated in place)
    df_before,      \* that table as it was when the call was made
    scanned,        \* prepare_series was called since construction or reset
    discarded,      \* some reset() emptied a registry that held intervals
    constructed,    \* gap_size and replace_value as __init__ set them
    _types,         \* the module's registry: type name -> class
    types_before,   \* _types when the last registry call was made
    registered_first, \* type name -> the class of its first registration
    preprocessor_type, \* the type name passed to preprocessor / create_preprocessor
    cls,            \* the class passed to the decorator
    kwargs,         \* the keyword arguments passed to create_preprocessor
    value,          \* the caller's object passed to normalize_preprocessor
    value_before,   \* that object as it was when the call was made
    rejected,       \* the type names registered again while registered
    lookups,        \* the names the current call looked up in _types
    constructor_calls, \* the classes whose constructor the current call invoked
    data_providers, \* the provider list passed to the loader
    tag_list,       \* the tags passed to the loader
    pc,             \* the loader's generator: "none", "created", "running",
                    \* "done" or "failed"
    groups,         \* the partition: <<[provider, tags]>> in priority order
    unmatched,      \* the tags the routing error names
    invoked,        \* the load_dataframes calls made: <<[provider, tags]>>
    yielded,        \* the frames the consumer has received
    position        \* <<group being drained, frames taken from it>>

preVars == <<gap_size, replace_value, _gaps, op, error, series, result, log,
             gaps_before, df, df_before, scanned, discarded, constructed>>

regVars == <<_types, types_before, registered_first, preprocessor_type, cls,
             kwargs, value, value_before, rejected, lookups, constructor_calls>>

routerVars == <<data_providers, tag_list, pc, groups, unmatched, invoked,
                yielded, position>>

vars == <<preVars, regVars, routerVars>>

\* ----------------------------------------------------------- dict helpers
\* The keys of a dict, in insertion order.
Keys(d) == [i \in 1 .. Len(d) |-> d[i].name]

KeySet(d) == {d[i].name : i \in 1 .. Len(d)}

\* d[name] of a dict holding name.
Get(d, name) == (CHOOSE i \in 1 .. Len(d) : d[i].name = name)

\* What d.get(name, []) reads: the list under name, [] for a missing key.
GapsOf(d, name) ==
    IF name \in KeySet(d) THEN d[Get(d, name)].gaps ELSE <<>>

\* Mutant of Extend: the list under name is replaced, not extended.
ExtendReplacing(d, name, gaps) ==
    IF name \in KeySet(d)
    THEN [d EXCEPT ![Get(d, name)].gaps = gaps]
    ELSE Append(d, [name |-> name, gaps |-> gaps])

\* defaultdict(list): self._gaps[name].extend(gaps) creates the key at the
\* end of the dict when it is missing, and appends to its list.
Extend(d, name, gaps) ==
    IF name \in KeySet(d)
    THEN [d EXCEPT ![Get(d, name)].gaps = @ \o gaps]
    ELSE Append(d, [name |-> name, gaps |-> gaps])

\* ------------------------------------------------- FillGapsPreprocessor
\* pd.Timedelta(text) for the duration literals used here; <<>> when the
\* text is no duration (pandas raises ValueError).
Timedelta(text) ==
    CASE text = "1s" -> <<1>>
      [] text = "2s" -> <<2>>
      [] OTHER -> <<>>

\* A gap_size argument is a duration [kind |-> "td", value |-> n] or a
\* string [kind |-> "str", text |-> s].
GapSizeArgs ==
    [kind : {"td"}, value : GapSizes] \cup [kind : {"str"}, text : {"1s", "2s"}]

\* FillGapsPreprocessor.__init__: a string gap_size is parsed, the registry
\* starts empty.
FillGapsInit(gs, rv) ==
    [gap_size |-> IF gs.kind = "str" THEN Timedelta(gs.text)[1] ELSE gs.value,
     replace_value |-> rv,
     _gaps |-> <<>>]

\* Mutant of ResetGaps: reset() leaves the registry as it is.
ResetKeepsGaps(d) == d

\* reset(): self._gaps = defaultdict(list).
ResetGaps(d) == <<>>

\* Mutant of ResetInstance: reset() builds the instance anew, with a zero
\* threshold, as self.__init__(pd.Timedelta(0), self.replace_value) would.
ResetReinitialises(self) ==
    [gap_size |-> 0, replace_value |-> self.replace_value, _gaps |-> <<>>]

\* reset() on the instance: its only assignment is to self._gaps.
ResetInstance(self) == [self EXCEPT !._gaps = ResetGaps(self._gaps)]

\* idx.diff(): the difference to the previous element; <<>> is NaT, the
\* first element's difference.
Diff(idx) ==
    [i \in 1 .. Len(idx) |-> IF i = 1 THEN <<>> ELSE <<idx[i] - idx[i - 1]>>]

\* pd.concat([idx, idx.diff().rename("Diff")], axis=1): one row per sample.
DiffFrame(idx) ==
    [i \in 1 .. Len(idx) |-> [Time |-> idx[i], Diff |-> Diff(idx)[i]]]

\* df["Diff"] > self.gap_size: a comparison with NaT is false.
ExceedsGapSize(row, g) == row.Diff /= <<>> /\ row.Diff[1] > g

\* filtered_df = df[df["Diff"] > self.gap_size]
FilteredFrame(idx, g) ==
    SelectSeq(DiffFrame(idx), LAMBDA row : ExceedsGapSize(row, g))

\* (row["Time"], row["Time"] + row["Diff"]) of one filtered row.
GapOfRow(row) == <<row.Time, row.Time + row.Diff[1]>>

\* The generator `gaps` of one series.
SeriesGaps(idx, g) ==
    LET f == FilteredFrame(idx, g)
    IN  [i \in 1 .. Len(f) |-> GapOfRow(f[i])]

\* The loop over the batch: self._gaps[name].extend(gaps) from series k on.
RECURSIVE ScanFrom(_, _, _, _)
ScanFrom(d, batch, k, g) ==
    IF k > Len(batch)
    THEN d
    ELSE ScanFrom(Extend(d, batch[k].name, SeriesGaps(batch[k].index, g)),
                  batch, k + 1, g)

\* Mutant of Collect: each series is put in front of the result.
RECURSIVE CollectReversed(_, _)
CollectReversed(batch, k) ==
    IF k > Len(batch)
    THEN <<>>
    ELSE CollectReversed(batch, k + 1) \o <<batch[k]>>

\* result = []; result.append(value) for every series from k on.
RECURSIVE Collect(_, _)
Collect(batch, k) ==
    IF k > Len(batch)
    THEN <<>>
    ELSE <<batch[k]>> \o Collect(batch, k + 1)

\* "s" if len(gaps) > 1 else ""
PluralSuffix(n) == IF n > 1 THEN "s" ELSE ""

\* The logger.info loop: one record per key of self._gaps.
LogRecords(d) ==
    [i \in 1 .. Len(d) |->
        [name |-> d[i].name, count |-> Len(d[i].gaps),
         suffix |-> PluralSuffix(Len(d[i].gaps))]]

\* The (name, gap) pairs in the order prepare_data's two loops visit them.
RECURSIVE GapPairs(_, _)
GapPairs(d, k) ==
    IF k > Len(d)
    THEN <<>>
    ELSE [i \in 1 .. Len(d[k].gaps) |-> [name |-> d[k].name, gap |-> d[k].gaps[i]]]
         \o GapPairs(d, k + 1)

ColumnSet(t) == {t.columns[i] : i \in 1 .. Len(t.columns)}

\* Mutant of InGap: the rows at both ends of the interval are taken too.
InGapClosed(ts, gap) == ts >= gap[1] /\ ts <= gap[2]

\* (df.index > gap_start) & (df.index < gap_end)
InGap(ts, gap) == ts > gap[1] /\ ts < gap[2]

\* df.iloc[mask, loc] = self.replace_value
WriteGap(t, name, gap, v) ==
    [t EXCEPT !.cells[name] =
        [i \in 1 .. Len(t.index) |-> IF InGap(t.index[i], gap) THEN v ELSE @[i]]]

\* Mutant of GapsAfterCorrection: the intervals are taken out of the
\* registry as they are applied.
GapsConsumed(d) == <<>>

\* self._gaps after prepare_data: the loops read self._gaps.items() and
\* nothing is assigned to it.
GapsAfterCorrection(d) == d

\* prepare_data's loops from pair k on. df.columns.get_loc(name) raises
\* KeyError for a name that is no column; the table keeps what was written.
RECURSIVE CorrectFrom(_, _, _, _)
CorrectFrom(t, pairs, k, v) ==
    IF k > Len(pairs)
    THEN [df |-> t, error |-> "none"]
    ELSE IF pairs[k].name \notin ColumnSet(t)
    THEN [df |-> t, error |-> "KeyError"]
    ELSE CorrectFrom(WriteGap(t, pairs[k].name, pairs[k].gap, v), pairs, k + 1, v)

\* ----------------------------------------------------------------- inputs
RECURSIVE SeqSum(_)
SeqSum(s) == IF s = <<>> THEN 0 ELSE Head(s) + SeqSum(Tail(s))

TotalGaps(d) == SeqSum([i \in 1 .. Len(d) |-> Len(d[i].gaps)])

\* Strictly increasing sequences over a set of integers.
Increasing(S) ==
    {s \in UNION {[1 .. n -> S] : n \in 0 .. Cardinality(S)} :
        \A i \in 1 .. Len(s) - 1 : s[i] < s[i + 1]}

\* The value a raw series holds at timestamp ts.
SampleValue(ts) == ts + 1

\* A series: its name, its index and its values, one per timestamp.
SeriesPool ==
    {[name |-> name, index |-> idx,
      values |-> [i \in 1 .. Len(idx) |-> SampleValue(idx[i])]] :
        name \in Tags, idx \in Increasing(Times)}

Batches == UNION {[1 .. n -> SeriesPool] : n \in BatchSizes}

\* The value a merged table holds at timestamp ts before any correction.
OriginalValue(ts) == ts + 1

ColumnLists ==
    {c \in UNION {[1 .. n -> Tags] : n \in 0 .. Cardinality(Tags)} :
        \A i, j \in 1 .. Len(c) : i /= j => c[i] /= c[j]}

\* Merged tables: a dense row axis, the first n timestamps of RowTimes
\* (no row for n = 0), and any columns.
Tables ==
    {[index |-> [i \in 1 .. n |-> i - 1],
      columns |-> c,
      cells |-> [name \in {c[j] : j \in 1 .. Len(c)} |->
                    [i \in 1 .. n |-> OriginalValue(i - 1)]]] :
        n \in 0 .. Cardinality(RowTimes), c \in ColumnLists}

NoTable == [index |-> <<>>, columns |-> <<>>, cells |-> <<>>]

\* ------------------------------------------------------ registry, factory
\* Classes that get registered: the module's own and one more subclass of
\* Preprocessor, whose constructor keeps its keyword arguments.
Classes == {"FillGapsPreprocessor", "OtherPreprocessor"}

TypeNames == {"fill_gaps", "other", "extra"}

\* _types after the module is imported: @preprocessor("fill_gaps").
InitialTypes == [name \in {"fill_gaps"} |-> "FillGapsPreprocessor"]

NoValue == [kind |-> "none"]

\* d with key set to item.
SetItem(d, key, item) ==
    [k \in DOMAIN d \cup {key} |-> IF k = key THEN item ELSE d[k]]

\* Mutant of RegisterOutcome: a second registration replaces the first.
RegisterOverwrites(types, name, c) ==
    [types |-> SetItem(types, name, c), result |-> c, error |-> "none"]

\* preprocessor(preprocessor_type)(cls): the decorator's wrapper.
RegisterOutcome(types, name, c) ==
    IF name \in DOMAIN types
    THEN [types |-> types, result |-> NoValue, error |-> "ValueError"]
    ELSE [types |-> SetItem(types, name, c), result |-> c, error |-> "none"]

\* cls(**kw): FillGapsPreprocessor.__init__(self, gap_size, replace_value)
\* takes exactly its two parameters; pd.Timedelta raises ValueError on a
\* string that is no duration. The other class keeps what it is given.
Construct(c, kw) ==
    IF c = "FillGapsPreprocessor"
    THEN IF DOMAIN kw /= {"gap_size", "replace_value"}
         THEN [result |-> NoValue, error |-> "TypeError", constructor_calls |-> <<c>>]
         ELSE IF kw.gap_size.kind = "str" /\ Timedelta(kw.gap_size.text) = <<>>
         THEN [result |-> NoValue, error |-> "ValueError", constructor_calls |-> <<c>>]
         ELSE [result |-> [kind |-> "instance", cls |-> c,
                           self |-> FillGapsInit(kw.gap_size, kw.replace_value)],
               error |-> "none", constructor_calls |-> <<c>>]
    ELSE [result |-> [kind |-> "instance", cls |-> c, self |-> kw],
          error |-> "none", constructor_calls |-> <<c>>]

\* Mutant of CreateOutcome: a name that is not registered is built as the
\* default class, as _types.get(name, FillGapsPreprocessor) would.
CreateFallsBack(types, name, kw) ==
    IF "preprocessor_type" \in DOMAIN kw
    THEN [result |-> NoValue, error |-> "TypeError", lookups |-> <<>>,
          constructor_calls |-> <<>>]
    ELSE LET c == IF name \in DOMAIN types THEN types[name]
                  ELSE "FillGapsPreprocessor"
             made == Construct(c, kw)
         IN  [result |-> made.result, error |-> made.error,
              lookups |-> <<name>>, constructor_calls |-> made.constructor_calls]

\* create_preprocessor(name, **kw). A keyword named like the positional
\* parameter cannot be bound (TypeError) before the body runs.
CreateOutcome(types, name, kw) ==
    IF "preprocessor_type" \in DOMAIN kw
    THEN [result |-> NoValue, error |-> "TypeError", lookups |-> <<>>,
          constructor_calls |-> <<>>]
    ELSE IF name \notin DOMAIN types
    THEN [result |-> NoValue, error |-> "ValueError", lookups |-> <<name>>,
          constructor_calls |-> <<>>]
    ELSE LET made == Construct(types[name], kw)
         IN  [result |-> made.result, error |-> made.error,
              lookups |-> <<name>>, constructor_calls |-> made.constructor_calls]

\* Mutant of DeepCopy: no copy is made; the local name aliases the caller's dict.
AliasCopy(d) == [caller |-> FALSE, items |-> d]

\* deepcopy(value): a new dict with the same items; changes to it do not
\* reach the caller's dict.
DeepCopy(d) == [caller |-> TRUE, items |-> d]

\* Mutant of Pop: the key is read and left in the dict.
PopKeeps(d, key) == [item |-> d[key], rest |-> d]

\* d.pop(key): the item, and the dict without the key.
Pop(d, key) ==
    [item |-> d[key], rest |-> [k \in DOMAIN d \ {key} |-> d[k]]]

\* Mutant of NormalizeOutcome: a record without a "type" is built as the
\* default type, as value.pop("type", "fill_gaps") would.
NormalizeDefaultType(types, v) ==
    IF v.kind /= "dict"
    THEN [result |-> v, error |-> "none", value |-> v, lookups |-> <<>>,
          constructor_calls |-> <<>>]
    ELSE LET copy == DeepCopy(v.items)
             popped ==
                IF "type" \in DOMAIN copy.items
                THEN Pop(copy.items, "type")
                ELSE [item |-> "fill_gaps", rest |-> copy.items]
             out == CreateOutcome(types, popped.item, popped.rest)
         IN  [result |-> out.result, error |-> out.error, value |-> v,
              lookups |-> out.lookups,
              constructor_calls |-> out.constructor_calls]

\* normalize_preprocessor(v): the outcome and the caller's object afterwards.
\* copy.caller tells whether the caller's dict is still its own object.
NormalizeOutcome(types, v) ==
    IF v.kind /= "dict"
    THEN [result |-> v, error |-> "none", value |-> v, lookups |-> <<>>,
          constructor_calls |-> <<>>]
    ELSE IF "type" \notin DOMAIN v.items
    THEN [result |-> NoValue, error |-> "ValueError", value |-> v,
          lookups |-> <<>>, constructor_calls |-> <<>>]
    ELSE LET copy == DeepCopy(v.items)
             popped == Pop(copy.items, "type")
             out == CreateOutcome(types, popped.item, popped.rest)
         IN  [result |-> out.result, error |-> out.error,
              value |-> IF copy.caller THEN v
                        ELSE [kind |-> "dict", items |-> popped.rest],
              lookups |-> out.lookups, constructor_calls |-> out.constructor_calls]

\* An optional keyword: <<>> when it is not passed, <<v>> when passed as v.
GapSizeOptions ==
    {<<>>} \cup {<<v>> : v \in [kind : {"td"}, value : {1}]
                                \cup [kind : {"str"}, text : {"2s", "soon"}]}

ReplaceValueOptions == {<<>>} \cup {<<v>> : v \in ReplaceValues}

PositionalNameOptions == {<<>>, <<"fill_gaps">>}

\* Keyword arguments: any of gap_size, replace_value and a keyword named like
\* create_preprocessor's own parameter, each with one of its values.
KeywordArgs ==
    {[k \in (IF g = <<>> THEN {} ELSE {"gap_size"})
            \cup (IF r = <<>> THEN {} ELSE {"replace_value"})
            \cup (IF n = <<>> THEN {} ELSE {"preprocessor_type"}) |->
        CASE k = "gap_size" -> g[1]
          [] k = "replace_value" -> r[1]
          [] k = "preprocessor_type" -> n[1]] :
        g \in GapSizeOptions, r \in ReplaceValueOptions, n \in PositionalNameOptions}

\* What is passed to normalize_preprocessor: a configuration record with or
\* without a "type", or an instance that is already constructed.
NormalizeValues ==
    {[kind |-> "dict", items |-> kw] : kw \in KeywordArgs}
    \cup {[kind |-> "dict", items |-> SetItem(kw, "type", name)] :
            kw \in KeywordArgs, name \in TypeNames}
    \cup {[kind |-> "instance", cls |-> "FillGapsPreprocessor",
           self |-> FillGapsInit(gs, rv)] :
            gs \in GapSizeArgs, rv \in ReplaceValues}

\* ----------------------------------------------------- providers, router
\* Tags are sequences of characters, so that the providers' regular
\* expressions are matched against them.
RouterTags ==
    {<<"a", "b">>, <<"a", "b", "b", "a">>, <<"c", "b", "a">>, <<"t", "a", "g">>}

\* MockProducerRegExp instances of the tests' setUp, named by their pattern.
Providers == {"ab.*", ".*b.*"}

\* regexp.match(tag) for the two patterns: "ab.*" matches a tag that starts
\* with ab, ".*b.*" one that holds a b.
RegexpMatch(pattern, tag) ==
    CASE pattern = "ab.*" -> Len(tag) >= 2 /\ tag[1] = "a" /\ tag[2] = "b"
      [] pattern = ".*b.*" -> \E i \in 1 .. Len(tag) : tag[i] = "b"

\* MockProducerRegExp.can_handle_tag
CanHandleTag(provider, tag) == RegexpMatch(provider, tag)

\* One step of MockProducerRegExp.load_dataframes' generator: the frame for
\* a tag the pattern matches, ValueError for another.
LoadDataframe(provider, tag) ==
    IF RegexpMatch(provider, tag)
    THEN [frame |-> [columns |-> <<provider>>, tag |-> tag], error |-> "none"]
    ELSE [frame |-> [columns |-> <<>>, tag |-> tag], error |-> "ValueError"]

\* Mutant of FirstCapable: the last provider that can handle the tag.
LastCapable(ps, tag) ==
    IF \E i \in 1 .. Len(ps) : CanHandleTag(ps[i], tag)
    THEN CHOOSE i \in 1 .. Len(ps) :
            /\ CanHandleTag(ps[i], tag)
            /\ \A j \in (i + 1) .. Len(ps) : ~CanHandleTag(ps[j], tag)
    ELSE 0

\* The position in ps of the first provider whose can_handle_tag accepts
\* the tag; 0 when none does.
FirstCapable(ps, tag) ==
    IF \E i \in 1 .. Len(ps) : CanHandleTag(ps[i], tag)
    THEN CHOOSE i \in 1 .. Len(ps) :
            /\ CanHandleTag(ps[i], tag)
            /\ \A j \in 1 .. (i - 1) : ~CanHandleTag(ps[j], tag)
    ELSE 0

\* Mutant of Unserviceable: a tag without provider is dropped silently.
NoneUnserviceable(ps, tags) == <<>>

\* The tags no provider can serve, in input order.
Unserviceable(ps, tags) ==
    SelectSeq(tags, LAMBDA tag : FirstCapable(ps, tag) = 0)

\* The tags assigned to the provider at position p, in input order.
\* Mutant of TagsOf: every tag the provider can handle, also one that an
\* earlier provider took.
TagsOfCapable(ps, tags, p) ==
    SelectSeq(tags, LAMBDA tag : CanHandleTag(ps[p], tag))

TagsOf(ps, tags, p) ==
    SelectSeq(tags, LAMBDA tag : FirstCapable(ps, tag) = p)

\* Mutant of GroupsFrom: one group per tag, in tag input order.
RECURSIVE GroupsPerTag(_, _, _)
GroupsPerTag(ps, tags, p) ==
    IF p > Len(tags)
    THEN <<>>
    ELSE (IF FirstCapable(ps, tags[p]) = 0
          THEN <<>>
          ELSE <<[provider |-> ps[FirstCapable(ps, tags[p])],
                  tags |-> <<tags[p]>>]>>)
         \o GroupsPerTag(ps, tags, p + 1)

\* The groups of the providers from position p on that got a tag, in
\* priority order.
RECURSIVE GroupsFrom(_, _, _)
GroupsFrom(ps, tags, p) ==
    IF p > Len(ps)
    THEN <<>>
    ELSE (IF TagsOf(ps, tags, p) = <<>>
          THEN <<>>
          ELSE <<[provider |-> ps[p], tags |-> TagsOf(ps, tags, p)]>>)
         \o GroupsFrom(ps, tags, p + 1)

\* Mutant of Advance: when a group is dispatched, load_dataframes of every
\* group after it is called as well.
AdvanceEager(r) ==
    LET g == r.position[1]
        k == r.position[2]
    IN  IF g >= 1 /\ k < Len(r.groups[g].tags)
        THEN LET got == LoadDataframe(r.groups[g].provider,
                                      r.groups[g].tags[k + 1])
             IN  IF got.error = "none"
                 THEN [r EXCEPT !.yielded = Append(@, got.frame),
                                !.position = <<g, k + 1>>,
                                !.pc = "running"]
                 ELSE [r EXCEPT !.pc = "failed", !.error = got.error]
        ELSE IF g < Len(r.groups) /\ Len(r.invoked) <= g
        THEN LET got == LoadDataframe(r.groups[g + 1].provider,
                                      r.groups[g + 1].tags[1])
             IN  IF got.error = "none"
                 THEN [r EXCEPT !.invoked = r.groups,
                                !.yielded = Append(@, got.frame),
                                !.position = <<g + 1, 1>>,
                                !.pc = "running"]
                 ELSE [r EXCEPT !.invoked = r.groups,
                                !.position = <<g + 1, 0>>,
                                !.pc = "failed", !.error = got.error]
        ELSE IF g < Len(r.groups)
        THEN LET got == LoadDataframe(r.groups[g + 1].provider,
                                      r.groups[g + 1].tags[1])
             IN  IF got.error = "none"
                 THEN [r EXCEPT !.yielded = Append(@, got.frame),
                                !.position = <<g + 1, 1>>,
                                !.pc = "running"]
                 ELSE [r EXCEPT !.position = <<g + 1, 0>>,
                                !.pc = "failed", !.error = got.error]
        ELSE [r EXCEPT !.pc = "done"]

\* What the generator does from a state r = [groups, invoked, yielded,
\* position] when the next frame is asked for: it takes the next frame of
\* the group being drained, or calls the next group's load_dataframes and
\* takes its first frame, or ends.
Advance(r) ==
    LET g == r.position[1]
        k == r.position[2]
    IN  IF g >= 1 /\ k < Len(r.groups[g].tags)
        THEN LET got == LoadDataframe(r.groups[g].provider, r.groups[g].tags[k + 1])
             IN  IF got.error = "none"
                 THEN [r EXCEPT !.yielded = Append(@, got.frame),
                                !.position = <<g, k + 1>>,
                                !.pc = "running"]
                 ELSE [r EXCEPT !.pc = "failed", !.error = got.error]
        ELSE IF g < Len(r.groups)
        THEN LET got == LoadDataframe(r.groups[g + 1].provider,
                                      r.groups[g + 1].tags[1])
                 called == Append(r.invoked, r.groups[g + 1])
             IN  IF got.error = "none"
                 THEN [r EXCEPT !.invoked = called,
                                !.yielded = Append(@, got.frame),
                                !.position = <<g + 1, 1>>,
                                !.pc = "running"]
                 ELSE [r EXCEPT !.invoked = called, !.position = <<g + 1, 0>>,
                                !.pc = "failed", !.error = got.error]
        ELSE [r EXCEPT !.pc = "done"]

\* Mutant of FirstPull: the groups are dispatched and the routing error is
\* raised only when the generator has nothing more to yield.
FirstPullFailsLate(ps, tags) ==
    LET r == [groups |-> GroupsFrom(ps, tags, 1), unmatched |-> <<>>,
              invoked |-> <<>>, yielded |-> <<>>, position |-> <<0, 0>>,
              pc |-> "running", error |-> "none"]
    IN  IF r.groups = <<>> /\ Unserviceable(ps, tags) /= <<>>
        THEN [r EXCEPT !.pc = "failed", !.error = "RoutingError",
                       !.unmatched = Unserviceable(ps, tags)]
        ELSE Advance(r)

\* The first pull: the tags are partitioned; with an unserviceable tag the
\* routing error is raised, otherwise the first group is dispatched.
FirstPull(ps, tags) ==
    LET r == [groups |-> GroupsFrom(ps, tags, 1), unmatched |-> <<>>,
              invoked |-> <<>>, yielded |-> <<>>, position |-> <<0, 0>>,
              pc |-> "running", error |-> "none"]
    IN  IF Unserviceable(ps, tags) /= <<>>
        THEN [r EXCEPT !.pc = "failed", !.error = "RoutingError",
                       !.unmatched = Unserviceable(ps, tags)]
        ELSE Advance(r)

\* Ordered provider lists without repetition.
ProviderLists ==
    {ps \in UNION {[1 .. n -> Providers] : n \in 0 .. Cardinality(Providers)} :
        \A i, j \in 1 .. Len(ps) : i /= j => ps[i] /= ps[j]}

TagLists == UNION {[1 .. n -> RouterTags] : n \in 0 .. MaxTags}

\* ---------------------------------------------------------------- actions
\* No call to the loader has been made.
RouterIdle ==
    /\ data_providers = <<>>
    /\ tag_list = <<>>
    /\ pc = "none"
    /\ groups = <<>>
    /\ unmatched = <<>>
    /\ invoked = <<>>
    /\ yielded = <<>>
    /\ position = <<0, 0>>

\* The registry as the import of the module leaves it, with no call made.
RegistryIdle ==
    /\ _types = InitialTypes
    /\ types_before = InitialTypes
    /\ registered_first = InitialTypes
    /\ preprocessor_type = ""
    /\ cls = ""
    /\ kwargs = <<>>
    /\ value = NoValue
    /\ value_before = NoValue
    /\ rejected = {}
    /\ lookups = <<>>
    /\ constructor_calls = <<>>

\* The state after FillGapsPreprocessor(gap_size, replace_value); no call
\* has been made yet.
Init ==
    /\ \E gs \in GapSizeArgs, rv \in ReplaceValues :
        LET self == FillGapsInit(gs, rv)
        IN  /\ gap_size = self.gap_size
            /\ replace_value = self.replace_value
            /\ _gaps = self._gaps
            /\ constructed = [gap_size |-> self.gap_size,
                              replace_value |-> self.replace_value]
    /\ op = "none"
    /\ error = "none"
    /\ series = <<>>
    /\ result = <<>>
    /\ log = <<>>
    /\ gaps_before = <<>>
    /\ df = NoTable
    /\ df_before = NoTable
    /\ scanned = FALSE
    /\ discarded = FALSE
    /\ RegistryIdle
    /\ RouterIdle

\* The caller is between two calls.
Idle == op = "none"

Reset ==
    /\ Idle
    /\ LET self == ResetInstance([gap_size |-> gap_size,
                                  replace_value |-> replace_value,
                                  _gaps |-> _gaps])
       IN  /\ gap_size' = self.gap_size
           /\ replace_value' = self.replace_value
           /\ _gaps' = self._gaps
    /\ gaps_before' = _gaps
    /\ op' = "reset"
    /\ error' = "none"
    /\ scanned' = FALSE
    /\ discarded' = (discarded \/ TotalGaps(_gaps) > 0)
    /\ UNCHANGED <<series, result, log, df, df_before, constructed>>
    /\ UNCHANGED <<regVars, routerVars>>

PrepareSeries(batch) ==
    /\ Idle
    /\ TotalGaps(ScanFrom(_gaps, batch, 1, gap_size)) <= MaxGaps
    /\ _gaps' = ScanFrom(_gaps, batch, 1, gap_size)
    /\ gaps_before' = _gaps
    /\ op' = "prepare_series"
    /\ error' = "none"
    /\ series' = batch
    /\ result' = Collect(batch, 1)
    /\ log' = LogRecords(_gaps')
    /\ scanned' = TRUE
    /\ UNCHANGED <<gap_size, replace_value, df, df_before, discarded, constructed>>
    /\ UNCHANGED <<regVars, routerVars>>

\* prepare_data(t); the caller passes a new merged table, or passes the
\* table the previous prepare_data returned once more.
PrepareData(t) ==
    /\ Idle \/ (op = "prepare_data" /\ t = df)
    /\ Idle => t \in Tables
    /\ LET out == CorrectFrom(t, GapPairs(_gaps, 1), 1, replace_value)
       IN  /\ df' = out.df
           /\ error' = out.error
    /\ _gaps' = GapsAfterCorrection(_gaps)
    /\ df_before' = t
    /\ gaps_before' = _gaps
    /\ op' = "prepare_data"
    /\ UNCHANGED <<gap_size, replace_value, series, result, log, scanned,
                   discarded, constructed>>
    /\ UNCHANGED <<regVars, routerVars>>

\* The call has returned (or raised) and the caller drops its arguments and
\* its result; the instance keeps its state.
Return ==
    /\ op \in {"reset", "prepare_series", "prepare_data"}
    /\ op' = "none"
    /\ error' = "none"
    /\ series' = <<>>
    /\ result' = <<>>
    /\ log' = <<>>
    /\ gaps_before' = <<>>
    /\ df' = NoTable
    /\ df_before' = NoTable
    /\ UNCHANGED <<gap_size, replace_value, _gaps, scanned, discarded, constructed>>
    /\ UNCHANGED <<regVars, routerVars>>

Next ==
    \/ Reset
    \/ \E batch \in Batches : PrepareSeries(batch)
    \/ \E t \in Tables : PrepareData(t)
    \/ PrepareData(df)
    \/ Return

Spec == Init /\ [][Next]_vars

\* ------------------------------------------------------- registry actions
\* The preprocessor instance is not used while the registry is exercised.
PreprocessorIdle ==
    /\ gap_size = 1
    /\ replace_value = 0
    /\ _gaps = <<>>
    /\ series = <<>>
    /\ log = <<>>
    /\ gaps_before = <<>>
    /\ df = NoTable
    /\ df_before = NoTable
    /\ scanned = FALSE
    /\ discarded = FALSE
    /\ constructed = [gap_size |-> 1, replace_value |-> 0]

InitRegistry ==
    /\ RegistryIdle
    /\ PreprocessorIdle
    /\ RouterIdle
    /\ op = "none"
    /\ error = "none"
    /\ result = NoValue

\* @preprocessor(name) applied to class c.
Register(name, c) ==
    /\ Idle
    /\ LET out == RegisterOutcome(_types, name, c)
       IN  /\ _types' = out.types
           /\ result' = out.result
           /\ error' = out.error
    /\ registered_first' =
        IF name \in DOMAIN registered_first
        THEN registered_first
        ELSE SetItem(registered_first, name, c)
    /\ types_before' = _types
    /\ op' = "register"
    /\ preprocessor_type' = name
    /\ cls' = c
    /\ rejected' =
        IF name \in DOMAIN registered_first THEN rejected \cup {name} ELSE rejected
    /\ lookups' = <<name>>
    /\ constructor_calls' = <<>>
    /\ UNCHANGED <<kwargs, value, value_before>>
    /\ UNCHANGED <<gap_size, replace_value, _gaps, series, log, gaps_before, df,
                   df_before, scanned, discarded, constructed, routerVars>>

\* create_preprocessor(name, **kw).
Create(name, kw) ==
    /\ Idle
    /\ LET out == CreateOutcome(_types, name, kw)
       IN  /\ result' = out.result
           /\ error' = out.error
           /\ lookups' = out.lookups
           /\ constructor_calls' = out.constructor_calls
    /\ types_before' = _types
    /\ op' = "create"
    /\ preprocessor_type' = name
    /\ kwargs' = kw
    /\ UNCHANGED <<_types, registered_first, cls, value, value_before, rejected>>
    /\ UNCHANGED <<gap_size, replace_value, _gaps, series, log, gaps_before, df,
                   df_before, scanned, discarded, constructed, routerVars>>

\* normalize_preprocessor(v).
Normalize(v) ==
    /\ Idle
    /\ LET out == NormalizeOutcome(_types, v)
       IN  /\ result' = out.result
           /\ error' = out.error
           /\ value' = out.value
           /\ lookups' = out.lookups
           /\ constructor_calls' = out.constructor_calls
    /\ value_before' = v
    /\ types_before' = _types
    /\ op' = "normalize"
    /\ UNCHANGED <<_types, registered_first, preprocessor_type, cls, kwargs,
                   rejected>>
    /\ UNCHANGED <<gap_size, replace_value, _gaps, series, log, gaps_before, df,
                   df_before, scanned, discarded, constructed, routerVars>>

\* The registry call has returned (or raised) and the caller drops its
\* arguments and its result; the registry keeps its entries.
ReturnRegistry ==
    /\ op \in {"register", "create", "normalize"}
    /\ op' = "none"
    /\ error' = "none"
    /\ result' = NoValue
    /\ types_before' = _types
    /\ preprocessor_type' = ""
    /\ cls' = ""
    /\ kwargs' = <<>>
    /\ value' = NoValue
    /\ value_before' = NoValue
    /\ lookups' = <<>>
    /\ constructor_calls' = <<>>
    /\ UNCHANGED <<_types, registered_first, rejected>>
    /\ UNCHANGED <<gap_size, replace_value, _gaps, series, log, gaps_before, df,
                   df_before, scanned, discarded, constructed, routerVars>>

NextRegistry ==
    \/ \E name \in TypeNames, c \in Classes : Register(name, c)
    \/ \E name \in TypeNames, kw \in KeywordArgs : Create(name, kw)
    \/ \E v \in NormalizeValues : Normalize(v)
    \/ ReturnRegistry

SpecRegistry == InitRegistry /\ [][NextRegistry]_vars

\* --------------------------------------------------------- router actions
InitRouter ==
    /\ RouterIdle
    /\ RegistryIdle
    /\ PreprocessorIdle
    /\ op = "none"
    /\ error = "none"
    /\ result = NoValue

notRouterVars ==
    <<gap_size, replace_value, _gaps, op, series, result, log, gaps_before, df,
      df_before, scanned, discarded, constructed, regVars>>

\* load_dataframes_from_multiple_providers(ps, from_ts, to_ts, tags): the
\* call returns a generator; nothing of its body has run.
LoadCall(ps, tags) ==
    /\ pc = "none"
    /\ data_providers' = ps
    /\ tag_list' = tags
    /\ pc' = "created"
    /\ UNCHANGED <<groups, unmatched, invoked, yielded, position, error>>
    /\ UNCHANGED notRouterVars

\* The consumer asks the generator for its next frame.
Pull ==
    /\ pc \in {"created", "running"}
    /\ LET r == IF pc = "created"
                THEN FirstPull(data_providers, tag_list)
                ELSE Advance([groups |-> groups, unmatched |-> unmatched,
                              invoked |-> invoked, yielded |-> yielded,
                              position |-> position, pc |-> pc,
                              error |-> error])
       IN  /\ groups' = r.groups
           /\ unmatched' = r.unmatched
           /\ invoked' = r.invoked
           /\ yielded' = r.yielded
           /\ position' = r.position
           /\ pc' = r.pc
           /\ error' = r.error
    /\ UNCHANGED <<data_providers, tag_list>>
    /\ UNCHANGED notRouterVars

\* The consumer stops pulling and drops the generator, at any point.
Drop ==
    /\ pc /= "none"
    /\ pc' = "none"
    /\ error' = "none"
    /\ data_providers' = <<>>
    /\ tag_list' = <<>>
    /\ groups' = <<>>
    /\ unmatched' = <<>>
    /\ invoked' = <<>>
    /\ yielded' = <<>>
    /\ position' = <<0, 0>>
    /\ UNCHANGED notRouterVars

NextRouter ==
    \/ \E ps \in ProviderLists, tags \in TagLists : LoadCall(ps, tags)
    \/ Pull
    \/ Drop

SpecRouter == InitRouter /\ [][NextRouter]_vars

\* ------------------------------------------------ claims: FillGapsPreprocessor
\* The gap intervals the specification expects of one series: (t_prev, t_next)
\* for every pair of consecutive timestamps further apart than the threshold.
RECURSIVE PairGaps(_, _, _)
PairGaps(idx, g, i) ==
    IF i >= Len(idx)
    THEN <<>>
    ELSE (IF idx[i + 1] - idx[i] > g THEN <<(<<idx[i], idx[i + 1]>>)>> ELSE <<>>)
         \o PairGaps(idx, g, i + 1)

\* PairGaps of the series of a batch named name, in batch order.
RECURSIVE ExpectedGaps(_, _, _, _)
ExpectedGaps(batch, name, g, k) ==
    IF k > Len(batch)
    THEN <<>>
    ELSE (IF batch[k].name = name THEN PairGaps(batch[k].index, g, 1) ELSE <<>>)
         \o ExpectedGaps(batch, name, g, k + 1)

\* C1: after prepare_series, the registry entry of every name has grown by
\* exactly the intervals (t_prev, t_next) of the consecutive pairs of that
\* name's series whose difference strictly exceeds the threshold.
C1_GapDetection ==
    op = "prepare_series" =>
        \A name \in Tags :
            GapsOf(_gaps, name) =
                GapsOf(gaps_before, name) \o ExpectedGaps(series, name, gap_size, 1)

\* C2: after prepare_data, for every registry tag that is a column and every
\* interval of it, the rows strictly inside the interval hold the replacement
\* value and the rows at either end keep their previous value.
C2_Correction ==
    op = "prepare_data" =>
        \A name \in KeySet(gaps_before) \cap ColumnSet(df) :
            \A i \in 1 .. Len(GapsOf(gaps_before, name)) :
                \A r \in 1 .. Len(df.index) :
                    LET gap == GapsOf(gaps_before, name)[i]
                        ts == df.index[r]
                    IN  /\ (gap[1] < ts /\ ts < gap[2])
                            => df.cells[name][r] = replace_value
                        /\ (ts = gap[1] \/ ts = gap[2])
                            => df.cells[name][r] = df_before.cells[name][r]

\* C3: prepare_data raises nothing when a registry tag with intervals is no
\* column of the table, and still corrects the columns of the other tags.
C3_MissingTagSkipped ==
    (op = "prepare_data"
        /\ \E name \in KeySet(gaps_before) :
            GapsOf(gaps_before, name) /= <<>> /\ name \notin ColumnSet(df_before))
    => /\ error = "none"
       /\ \A name \in KeySet(gaps_before) \cap ColumnSet(df) :
            \A i \in 1 .. Len(GapsOf(gaps_before, name)) :
                \A r \in 1 .. Len(df.index) :
                    InGap(df.index[r], GapsOf(gaps_before, name)[i])
                        => df.cells[name][r] = replace_value

\* C7: a prepare_data that no prepare_series precedes since construction or
\* since the last reset() raises nothing and leaves every cell unchanged.
C7_ResetMakesCorrectionNoOp ==
    (op = "prepare_data" /\ ~scanned) => (df = df_before /\ error = "none")

\* C7 witness: gaps were recorded, reset() discarded them, and prepare_data
\* then got a table with rows and columns.
C7_Witness ==
    /\ op = "prepare_data"
    /\ ~scanned
    /\ discarded
    /\ Len(df.index) = Cardinality(RowTimes)
    /\ Len(df.columns) = Cardinality(Tags)

\* The intervals the scan of a batch finds for name, in batch order.
RECURSIVE FoundGaps(_, _, _, _)
FoundGaps(batch, name, g, k) ==
    IF k > Len(batch)
    THEN <<>>
    ELSE (IF batch[k].name = name THEN SeriesGaps(batch[k].index, g) ELSE <<>>)
         \o FoundGaps(batch, name, g, k + 1)

\* C10: prepare_series appends what it finds for a name to the intervals
\* already recorded under it, and no call but reset() shortens a list.
C10_Accumulation ==
    /\ op = "prepare_series" =>
        \A name \in Tags :
            GapsOf(_gaps, name) =
                GapsOf(gaps_before, name) \o FoundGaps(series, name, gap_size, 1)
    /\ op = "prepare_data" => _gaps = gaps_before
    /\ op = "reset" => _gaps = <<>>

\* C10 witness: a batch of two series added an interval to a name that already
\* had one recorded by an earlier call.
C10_Witness ==
    /\ op = "prepare_series"
    /\ \E name \in Tags :
        /\ GapsOf(gaps_before, name) /= <<>>
        /\ Len(GapsOf(_gaps, name)) > Len(GapsOf(gaps_before, name))
    /\ Len(series) = 2

\* ------------------------------------------------------- claims: registry
\* C8: registering a name that is already registered raises the conflict
\* error and leaves the registry as it was; every name keeps the class of its
\* first registration, and create constructs an instance of that class.
C8_RegistrationUniqueness ==
    /\ (op = "register" /\ preprocessor_type \in DOMAIN types_before)
        => (error = "ValueError" /\ _types = types_before)
    /\ \A name \in DOMAIN registered_first :
        name \in DOMAIN _types /\ _types[name] = registered_first[name]
    /\ (op = "create" /\ error = "none")
        => result.cls = registered_first[preprocessor_type]

\* C8 witness: after a second registration of a name was rejected, create
\* of that name constructed an instance.
C8_Witness ==
    /\ op = "create"
    /\ error = "none"
    /\ preprocessor_type \in rejected
   
\* The keyword arguments of a configuration record: all fields but "type".
RecordKwargs(items) == [k \in DOMAIN items \ {"type"} |-> items[k]]

\* C9: normalize of a record with a "type" has the outcome of
\* create(type, **the other fields), and the caller's record is unchanged.
C9_RoundTrip ==
    (op = "normalize" /\ value_before.kind = "dict"
        /\ "type" \in DOMAIN value_before.items)
    => LET made == CreateOutcome(types_before, value_before.items.type,
                                 RecordKwargs(value_before.items))
       IN  /\ result = made.result
           /\ error = made.error
           /\ value = value_before

\* C9 witness: normalize constructed an instance from a record with keyword
\* arguments.
C9_Witness ==
    /\ op = "normalize"
    /\ value_before.kind = "dict"
    /\ "type" \in DOMAIN value_before.items
    /\ RecordKwargs(value_before.items) /= <<>>
    /\ error = "none"
    /\ result.kind = "instance"

\* C9 witness for the failing construction: the record is unchanged although
\* the constructor raised.
C9_WitnessFailed ==
    /\ op = "normalize"
    /\ value_before.kind = "dict"
    /\ "type" \in DOMAIN value_before.items
    /\ error = "TypeError"

\* --------------------------------------------------------- claims: router
\* The position of provider p in the list passed to the loader.
Priority(p) == CHOOSE i \in 1 .. Len(data_providers) : data_providers[i] = p

\* Provider p can handle the tag and no provider before it can.
EarliestFor(p, tag) ==
    /\ \E i \in 1 .. Len(data_providers) : data_providers[i] = p
    /\ CanHandleTag(p, tag)
    /\ \A j \in 1 .. Len(data_providers) :
        CanHandleTag(data_providers[j], tag) => Priority(p) <= j

Routable(tag) ==
    \E i \in 1 .. Len(data_providers) : CanHandleTag(data_providers[i], tag)

\* C4: every frame yielded for a tag comes from the earliest provider of the
\* list that can handle the tag, and a tag is passed to no other provider's
\* load_dataframes.
C4_RoutingPriority ==
    /\ \A k \in 1 .. Len(yielded) :
        \E p \in Providers :
            EarliestFor(p, yielded[k].tag) /\ yielded[k].columns = <<p>>
    /\ \A k \in 1 .. Len(invoked) :
        \A i \in 1 .. Len(invoked[k].tags) :
            EarliestFor(invoked[k].provider, invoked[k].tags[i])

\* C4 witness: a frame was yielded for a tag that two providers can handle.
C4_Witness ==
    \E k \in 1 .. Len(yielded) :
        Cardinality({i \in 1 .. Len(data_providers) :
                        CanHandleTag(data_providers[i], yielded[k].tag)}) >= 2

\* C5: the call alone partitions nothing, invokes no provider and raises
\* nothing; with a tag no provider can handle, the first pull raises the
\* routing error naming exactly those tags, with no provider invoked and no
\* frame yielded.
C5_LazyFailure ==
    /\ pc = "created" =>
        /\ error = "none"
        /\ groups = <<>> /\ unmatched = <<>>
        /\ invoked = <<>> /\ yielded = <<>>
    /\ (pc \in {"running", "done", "failed"}
            /\ \E i \in 1 .. Len(tag_list) : ~Routable(tag_list[i]))
        => /\ pc = "failed"
           /\ error = "RoutingError"
           /\ unmatched = SelectSeq(tag_list, LAMBDA tag : ~Routable(tag))
           /\ invoked = <<>>
           /\ yielded = <<>>
    /\ error = "RoutingError" =>
        \E i \in 1 .. Len(tag_list) : ~Routable(tag_list[i])

\* C5 witness: the routing error was raised for a request whose first tag is
\* routable and whose later tag is not.
C5_Witness ==
    /\ pc = "failed"
    /\ error = "RoutingError"
    /\ Len(tag_list) >= 2
    /\ Routable(tag_list[1])
    /\ ~Routable(tag_list[2])

\* The tags of the request whose earliest capable provider is p, in order.
AssignedTo(p) == SelectSeq(tag_list, LAMBDA tag : EarliestFor(p, tag))

\* The tags of the invoked groups, one after the other, with their provider.
RECURSIVE Dispatched(_)
Dispatched(k) ==
    IF k > Len(invoked)
    THEN <<>>
    ELSE [i \in 1 .. Len(invoked[k].tags) |->
            [columns |-> <<invoked[k].provider>>, tag |-> invoked[k].tags[i]]]
         \o Dispatched(k + 1)

\* C6: with every tag routable, load_dataframes is called once per provider
\* that has a tag, with all of its tags in request order, in priority order;
\* providers without a tag are not called; the frames come group by group.
C6_GroupedDispatch ==
    (pc \in {"running", "done"}
        /\ \A i \in 1 .. Len(tag_list) : Routable(tag_list[i]))
    => /\ \A k \in 1 .. Len(invoked) :
            /\ invoked[k].tags = AssignedTo(invoked[k].provider)
            /\ invoked[k].tags /= <<>>
       /\ \A j, k \in 1 .. Len(invoked) :
            j < k => Priority(invoked[j].provider) < Priority(invoked[k].provider)
       /\ pc = "done" =>
            \A i \in 1 .. Len(data_providers) :
                AssignedTo(data_providers[i]) /= <<>>
                    => \E k \in 1 .. Len(invoked) :
                        invoked[k].provider = data_providers[i]
       /\ Len(yielded) <= Len(Dispatched(1))
       /\ yielded = SubSeq(Dispatched(1), 1, Len(yielded))
       /\ pc = "done" => yielded = Dispatched(1)

\* C6 witness: a request fully consumed whose first tag belongs to the second
\* provider, with two tags for the first provider.
C6_Witness ==
    /\ pc = "done"
    /\ Len(invoked) = 2
    /\ Len(invoked[1].tags) = 2
    /\ tag_list[1] = invoked[2].tags[1]

\* ---------------------------------------- claims: FillGapsPreprocessor, frame
\* C11: prepare_series returns the series it was given, in the same order
\* and with the same names, timestamps and values, leaves the batch it was
\* given as it was, and leaves the threshold and the replacement value alone.
C11_PassThrough ==
    op = "prepare_series" =>
        /\ error = "none"
        /\ Len(result) = Len(series)
        /\ \A k \in 1 .. Len(series) :
            /\ result[k].name = series[k].name
            /\ result[k].index = series[k].index
            /\ result[k].values = series[k].values
        /\ series \in Batches
        /\ gap_size = constructed.gap_size
        /\ replace_value = constructed.replace_value

\* C11 witness: a batch of two different series came back while the scan
\* recorded a gap.
C11_Witness ==
    /\ op = "prepare_series"
    /\ Len(result) = 2
    /\ result[1] /= result[2]
    /\ TotalGaps(_gaps) > TotalGaps(gaps_before)

\* ------------------------------------------------ claims: registry, errors
\* C12: create_preprocessor, called with a type name and keyword arguments
\* (none of them named like its own parameter, so that the call is bound),
\* leaves the registry as it was; for a name that is not registered it raises
\* the not-found ValueError without invoking a constructor; for a registered
\* name it invokes the constructor registered under the name, once, with the
\* keyword arguments, and what that gives is what it returns.
C12_CreateLookup ==
    (op = "create" /\ "preprocessor_type" \notin DOMAIN kwargs) =>
        /\ _types = types_before
        /\ lookups = <<preprocessor_type>>
        /\ preprocessor_type \notin DOMAIN types_before =>
            /\ error = "ValueError"
            /\ result = NoValue
            /\ constructor_calls = <<>>
        /\ preprocessor_type \in DOMAIN types_before =>
            LET made == Construct(types_before[preprocessor_type], kwargs)
            IN  /\ constructor_calls = <<types_before[preprocessor_type]>>
                /\ result = made.result
                /\ error = made.error
                /\ error = "none" =>
                    /\ result.kind = "instance"
                    /\ result.cls = types_before[preprocessor_type]

\* C12 witness: with two names registered, create of a third name, with
\* keyword arguments a constructor would accept, was refused.
C12_Witness ==
    /\ op = "create"
    /\ Cardinality(DOMAIN types_before) = 2
    /\ preprocessor_type \notin DOMAIN types_before
    /\ DOMAIN kwargs = {"gap_size", "replace_value"}
    /\ error = "ValueError"

\* C12, the other case: create of a name registered after the start
\* constructed an instance of its class.
C12_WitnessConstructed ==
    /\ op = "create"
    /\ preprocessor_type /= "fill_gaps"
    /\ error = "none"
    /\ result.kind = "instance"

\* C13: normalize_preprocessor of a value that is no configuration record
\* returns that value and constructs nothing; of a record without "type" it
\* raises the configuration ValueError with no lookup in the registry and no
\* constructor invoked; both leave the registry and the caller's value as
\* they were.
C13_NormalizeNoConstruction ==
    op = "normalize" =>
        /\ value_before.kind /= "dict" =>
            /\ error = "none"
            /\ result = value_before
            /\ lookups = <<>>
            /\ constructor_calls = <<>>
            /\ _types = types_before
            /\ value = value_before
        /\ (value_before.kind = "dict"
                /\ "type" \notin DOMAIN value_before.items) =>
            /\ error = "ValueError"
            /\ result = NoValue
            /\ lookups = <<>>
            /\ constructor_calls = <<>>
            /\ _types = types_before
            /\ value = value_before

\* C13 witness: a record that holds both constructor arguments and no "type"
\* was refused.
C13_Witness ==
    /\ op = "normalize"
    /\ value_before.kind = "dict"
    /\ DOMAIN value_before.items = {"gap_size", "replace_value"}
    /\ error = "ValueError"
    /\ constructor_calls = <<>>

\* C13, the other path: an instance came back from normalize_preprocessor
\* while the registry held a second class.
C13_WitnessPassThrough ==
    /\ op = "normalize"
    /\ value_before.kind = "instance"
    /\ result = value_before
    /\ Cardinality(DOMAIN _types) = 2

\* ------------------------------------------------ claims: router, partition
\* The tag as the string the caller passes.
TagString(tag) ==
    CASE tag = <<"a", "b">> -> "ab"
      [] tag = <<"a", "b", "b", "a">> -> "abba"
      [] tag = <<"c", "b", "a">> -> "cba"
      [] tag = <<"t", "a", "g">> -> "tag"

AllRoutable == \A i \in 1 .. Len(tag_list) : Routable(tag_list[i])

\* How often the tag is requested, is in the groups, and has a frame.
Requested(tag) == Cardinality({i \in 1 .. Len(tag_list) : tag_list[i] = tag})

Grouped(tag) ==
    Cardinality({gi \in (1 .. Len(groups)) \X (1 .. MaxTags) :
                    /\ gi[2] <= Len(groups[gi[1]].tags)
                    /\ groups[gi[1]].tags[gi[2]] = tag})

Loaded(tag) == Cardinality({k \in 1 .. Len(yielded) : yielded[k].tag = tag})

\* C14 as stated: with every tag routable, the name of every yielded frame
\* is a requested tag, and when the frames are consumed each requested tag
\* is the name of exactly one of them.
C14_PartitionByName ==
    (AllRoutable /\ pc \in {"running", "done"}) =>
        /\ \A k \in 1 .. Len(yielded) :
            \E i \in 1 .. Len(tag_list) :
                yielded[k].columns = <<TagString(tag_list[i])>>
        /\ pc = "done" =>
            \A i \in 1 .. Len(tag_list) :
                Cardinality({k \in 1 .. Len(yielded) :
                    yielded[k].columns = <<TagString(tag_list[i])>>}) = 1

\* C14, amended: with every tag routable the request does not fail; every
\* yielded frame was loaded for a requested tag and is named by the pattern
\* of a provider of the list; every occurrence of a tag in the request is in
\* exactly one provider group and is loaded once, so that a tag requested
\* once has exactly one frame when the frames are consumed.
C14_PartitionCorrectness ==
    (AllRoutable /\ pc \in {"running", "done", "failed"}) =>
        /\ pc /= "failed"
        /\ \A k \in 1 .. Len(yielded) :
            /\ Requested(yielded[k].tag) >= 1
            /\ \E i \in 1 .. Len(data_providers) :
                yielded[k].columns = <<data_providers[i]>>
        /\ \A tag \in RouterTags :
            /\ Grouped(tag) = Requested(tag)
            /\ Loaded(tag) <= Requested(tag)
            /\ pc = "done" => Loaded(tag) = Requested(tag)

\* C14 witness: three different tags, two of them handled by both providers
\* of the list, were consumed to the end.
C14_Witness ==
    /\ pc = "done"
    /\ Len(data_providers) = 2
    /\ Len(tag_list) = 3
    /\ \A i, j \in 1 .. 3 : i /= j => tag_list[i] /= tag_list[j]
    /\ Len(yielded) = 3

\* ------------------------------------- claims: FillGapsPreprocessor, registry
\* C15: every interval of the registry ends after it starts, and every
\* interval a prepare_series call stored under a tag starts and ends at two
\* consecutive timestamps of a series of that name in the batch of the call.
C15_StoredIntervals ==
    /\ \A k \in 1 .. Len(_gaps) :
        \A j \in 1 .. Len(_gaps[k].gaps) :
            _gaps[k].gaps[j][2] > _gaps[k].gaps[j][1]
    /\ op = "prepare_series" =>
        \A k \in 1 .. Len(_gaps) :
            \A j \in 1 .. Len(_gaps[k].gaps) :
                j > Len(GapsOf(gaps_before, _gaps[k].name)) =>
                    \E n \in 1 .. Len(series) :
                        /\ series[n].name = _gaps[k].name
                        /\ \E i \in 1 .. Len(series[n].index) - 1 :
                            /\ series[n].index[i] = _gaps[k].gaps[j][1]
                            /\ series[n].index[i + 1] = _gaps[k].gaps[j][2]

\* C16: prepare_data keeps the rows and the columns of the table; a cell
\* keeps its value unless its row's timestamp is strictly between the start
\* and the end of an interval recorded for its column's tag, so a column
\* with no interval keeps all its cells.
C16_CorrectionFrame ==
    op = "prepare_data" =>
        /\ df.index = df_before.index
        /\ df.columns = df_before.columns
        /\ DOMAIN df.cells = DOMAIN df_before.cells
        /\ \A name \in DOMAIN df.cells :
            /\ DOMAIN df.cells[name] = DOMAIN df_before.cells[name]
            /\ \A i \in 1 .. Len(df.index) :
                (\A j \in 1 .. Len(GapsOf(gaps_before, name)) :
                    \/ df.index[i] <= GapsOf(gaps_before, name)[j][1]
                    \/ df.index[i] >= GapsOf(gaps_before, name)[j][2])
                => df.cells[name][i] = df_before.cells[name][i]

\* C16 witness: prepare_data overwrote a cell of one column and left the
\* cells at the interval's two ends, with a second column that has no
\* interval.
C16_Witness ==
    /\ op = "prepare_data"
    /\ error = "none"
    /\ \E name \in DOMAIN df.cells :
        /\ \E i \in 1 .. Len(df.index) :
            df.cells[name][i] /= df_before.cells[name][i]
        /\ \E j \in 1 .. Len(GapsOf(gaps_before, name)) :
            /\ \E i \in 1 .. Len(df.index) :
                df.index[i] = GapsOf(gaps_before, name)[j][1]
            /\ \E i \in 1 .. Len(df.index) :
                df.index[i] = GapsOf(gaps_before, name)[j][2]
    /\ \E name \in DOMAIN df.cells : GapsOf(gaps_before, name) = <<>>

\* The names of the series of the batch.
BatchNames == {series[k].name : k \in 1 .. Len(series)}

\* C17: a prepare_series call emits one summary record for each name of its
\* batch and for no other name; the record states the number of intervals
\* the registry holds for the name, in the singular for one interval and in
\* the plural for any other number.
C17_SummaryRecords ==
    op = "prepare_series" =>
        /\ Len(log) = Cardinality(BatchNames)
        /\ {log[i].name : i \in 1 .. Len(log)} = BatchNames
        /\ \A i \in 1 .. Len(log) :
            /\ log[i].count = Len(GapsOf(_gaps, log[i].name))
            /\ log[i].suffix = (IF log[i].count = 1 THEN "" ELSE "s")

\* The consecutive timestamps of the batch's series of the name that are
\* more than g apart.
WidePairs(batch, name, g) ==
    {ki \in (1 .. Len(batch)) \X (1 .. Cardinality(Times)) :
        /\ batch[ki[1]].name = name
        /\ ki[2] < Len(batch[ki[1]].index)
        /\ batch[ki[1]].index[ki[2] + 1] - batch[ki[1]].index[ki[2]] > g}

\* C18: reset() empties the registry and leaves the threshold and the
\* replacement value as the constructor set them; after it prepare_series
\* records one interval for each consecutive pair further apart than that
\* threshold, and prepare_data writes that replacement value.
C18_ResetFrame ==
    /\ gap_size = constructed.gap_size
    /\ replace_value = constructed.replace_value
    /\ op = "reset" => (_gaps = <<>> /\ error = "none")
    /\ op = "prepare_series" =>
        \A name \in Tags :
            Len(GapsOf(_gaps, name)) =
                Len(GapsOf(gaps_before, name))
                    + Cardinality(WidePairs(series, name, constructed.gap_size))
    /\ op = "prepare_data" =>
        \A name \in DOMAIN df.cells :
            \A i \in 1 .. Len(df.index) :
                \/ df.cells[name][i] = df_before.cells[name][i]
                \/ df.cells[name][i] = constructed.replace_value

\* C18 witness: after a reset() that emptied a registry holding intervals,
\* a scan recorded an interval with the larger threshold and prepare_data
\* overwrote a cell.
C18_Witness ==
    /\ discarded
    /\ scanned
    /\ constructed.gap_size = 2
    /\ op = "prepare_data"
    /\ \E name \in DOMAIN df.cells :
        \E i \in 1 .. Len(df.index) :
            df.cells[name][i] /= df_before.cells[name][i]

\* ------------------------------------------- claims: router, consumption
\* The number of frames of the first n groups.
RECURSIVE FramesOf(_)
FramesOf(n) ==
    IF n = 0 THEN 0 ELSE FramesOf(n - 1) + Len(groups[n].tags)

\* C19: whenever the consumer stops, the groups whose load_dataframes was
\* invoked are the first groups, up to the one being drained; a group was
\* invoked only after the consumer had received every frame of all groups
\* before it and pulled again, so no group after the one being drained was
\* invoked.
C19_PartialConsumption ==
    pc \in {"running", "done"} =>
        /\ Len(invoked) <= Len(groups)
        /\ invoked = SubSeq(groups, 1, Len(invoked))
        /\ \A n \in 1 .. Len(invoked) : Len(yielded) > FramesOf(n - 1)
        /\ Len(yielded) <= FramesOf(Len(invoked))
        /\ position[1] = Len(invoked)

\* C19 witness: the consumer holds every frame of the first of two groups,
\* which has two tags, and the second group was not invoked.
C19_Witness ==
    /\ pc = "running"
    /\ Len(groups) = 2
    /\ Len(groups[1].tags) = 2
    /\ Len(yielded) = 2
    /\ Len(invoked) = 1

\* ------------------------------------ the preprocessor beside the registry
\* One FillGapsPreprocessor and the module's registry in one program: the
\* calls of both, on one series and one column at a time.
FrameBatches == {batch \in Batches : Len(batch) = 1 /\ batch[1].name = "A"}

FrameTables == {t \in Tables : t.columns = <<"A">>}

FrameKeywordArgs ==
    {kw \in KeywordArgs :
        /\ "preprocessor_type" \notin DOMAIN kw
        /\ "gap_size" \in DOMAIN kw => kw.gap_size.kind = "td"}

FrameValues ==
    {v \in NormalizeValues :
        v.kind = "dict" => RecordKwargs(v.items) \in FrameKeywordArgs}

NextFrame ==
    \/ Reset
    \/ \E batch \in FrameBatches : PrepareSeries(batch)
    \/ \E t \in FrameTables : PrepareData(t)
    \/ PrepareData(df)
    \/ Return
    \/ \E c \in Classes : Register("other", c)
    \/ \E name \in {"fill_gaps", "other"}, kw \in FrameKeywordArgs :
        Create(name, kw)
    \/ \E v \in FrameValues : Normalize(v)
    \/ ReturnRegistry

SpecFrame == Init /\ [][NextFrame]_vars

\* C20: the registry of intervals changes only in prepare_series and in
\* reset(): prepare_data, the decorator, create_preprocessor and
\* normalize_preprocessor leave it as it is; and prepare_data applied to
\* the table it has just returned leaves that table as it is.
C20_RegistryFrame ==
    [][/\ op' \in {"prepare_data", "register", "create", "normalize"}
            => _gaps' = _gaps
       /\ _gaps' /= _gaps => op' \in {"prepare_series", "reset"}
       /\ (op = "prepare_data" /\ op' = "prepare_data")
            => (df' = df /\ error' = error)]_vars

\* C20 witness: prepare_data was applied to a table that it had corrected
\* before, with intervals in the registry and a class registered after the
\* start.
C20_Witness ==
    /\ op = "prepare_data"
    /\ error = "none"
    /\ TotalGaps(_gaps) > 0
    /\ \E i \in 1 .. Len(df_before.index) : df_before.cells["A"][i] = replace_value
    /\ \E i \in 1 .. Len(df.index) : df.cells["A"][i] = replace_value
    /\ "other" \in DOMAIN _types

\* C20, the registry's side: create_preprocessor constructed an instance
\* while the registry of intervals held an interval.
C20_WitnessCreate ==
    /\ op = "create"
    /\ error = "none"
    /\ TotalGaps(_gaps) > 0

====
